---- MODULE Spec2Model ----
(***************************************************************************)
(* Planning graph of my_planning_graph.py: literal levels (s_levels) and   *)
(* action levels (a_levels) built by PlanningGraph.create_graph, the       *)
(* mutex tests of update_a_mutex / update_s_mutex, and h_levelsum.         *)
(*                                                                         *)
(* A Python set of nodes is a TLA+ set of node records in which no two     *)
(* records have the same key (__eq__/__hash__ of the node class); a        *)
(* reference held only for membership tests (mutex, children, the parents  *)
(* of a literal node) is the key of the node referred to.                  *)
(***************************************************************************)
EXTENDS Integers, Sequences, FiniteSets, TLC

\* ---------------------------------------------------------------- bounds
\* most domain (non no-op) ground actions of a problem
MaxActs == 2
\* most precondition literals of a domain action
MaxPre == 1
\* most effect literals of a domain action
MaxEff == 2
\* most literals (preconditions and effects) of all domain actions of a
\* problem together
MaxLits == 4

\* the symbols a problem's state_map is drawn from
Symbols == {"A", "B"}

VARIABLES problem, fs, serial, s_levels, a_levels, goal_states, level, pc,
          ret

vars == <<problem, fs, serial, s_levels, a_levels, goal_states, level, pc,
          ret>>

\* ------------------------------------------------------------ node classes
\* PgNode_s.__init__: a literal node with empty relation sets
PgNode_s(symbol, is_pos) ==
    [symbol |-> symbol, is_pos |-> is_pos,
     parents |-> {}, children |-> {}, mutex |-> {}]

\* PgNode_s.__eq__: the literal only
s_eq(n, m) == n.is_pos = m.is_pos /\ n.symbol = m.symbol

\* the hash/eq key of a literal node
s_key(n) == [symbol |-> n.symbol, is_pos |-> n.is_pos]

\* `node in s_level` for a Python set of PgNode_s
s_in(node, s_level) == \E m \in s_level : s_eq(m, node)

\* PgNode_a.precond_s_nodes
precond_s_nodes(action) ==
    {s_key(PgNode_s(p, TRUE)) : p \in action.precond_pos}
        \cup {s_key(PgNode_s(p, FALSE)) : p \in action.precond_neg}

\* PgNode_a.effect_s_nodes
effect_s_nodes(action) ==
    {s_key(PgNode_s(e, TRUE)) : e \in action.effect_add}
        \cup {s_key(PgNode_s(e, FALSE)) : e \in action.effect_rem}

\* PgNode_a.__init__
PgNode_a(action) ==
    [action |-> action,
     prenodes |-> precond_s_nodes(action),
     effnodes |-> effect_s_nodes(action),
     is_persistent |-> precond_s_nodes(action) = effect_s_nodes(action),
     parents |-> {}, children |-> {}, mutex |-> {}]

\* PgNode_a.__eq__
a_eq(n, m) ==
    /\ n.is_persistent = m.is_persistent
    /\ n.action.name = m.action.name
    /\ n.action.args = m.action.args

\* the hash/eq key of an action node
a_key(n) ==
    [is_persistent |-> n.is_persistent, name |-> n.action.name,
     args |-> n.action.args]

\* PgNode.is_mutex: `other in self.mutex`, other given by its key
is_mutex(self, other_key) == other_key \in self.mutex

\* ------------------------------------------------------------- the problem
\* an Action(expr, (precond_pos, precond_neg), (effect_add, effect_rem))
Action(name, args, pp, pn, ea, er) ==
    [name |-> name, args |-> args, precond_pos |-> pp, precond_neg |-> pn,
     effect_add |-> ea, effect_rem |-> er]

\* noop_actions without the no-ops of the negative literals (lines 254-255)
noop_actions_pos(literal_list) ==
    {Action("Noop_pos", <<{fluent}>>, {fluent}, {}, {fluent}, {}) :
        fluent \in literal_list}

\* PlanningGraph.noop_actions
noop_actions(literal_list) ==
    {Action("Noop_pos", <<{fluent}>>, {fluent}, {}, {fluent}, {}) :
        fluent \in literal_list}
    \cup {Action("Noop_neg", <<{fluent}>>, {}, {fluent}, {}, {fluent}) :
        fluent \in literal_list}

\* lp_utils.decode_state: 'T' fluents positive, the others negative
decode_state(state, fluent_map) ==
    [pos |-> {f \in fluent_map : state[f] = "T"},
     neg |-> {f \in fluent_map : state[f] # "T"}]

\* the ground domain actions over a vocabulary: at most MaxPre precondition
\* literals and MaxEff effect literals, named by their grounding
GroundActions(state_map) ==
    {Action("Act", <<pp, pn, ea, er>>, pp, pn, ea, er) :
        <<pp, pn, ea, er>> \in
            {q \in (SUBSET state_map) \X (SUBSET state_map)
                     \X (SUBSET state_map) \X (SUBSET state_map) :
                /\ Cardinality(q[1]) + Cardinality(q[2]) <= MaxPre
                /\ Cardinality(q[3]) + Cardinality(q[4]) <= MaxEff}}

\* the number of precondition and effect literals of an action
action_size(action) ==
    Cardinality(action.precond_pos) + Cardinality(action.precond_neg)
        + Cardinality(action.effect_add) + Cardinality(action.effect_rem)

\* the literals of a set of actions, summed
RECURSIVE actions_size(_)
actions_size(actions) ==
    IF actions = {} THEN 0
    ELSE LET a == CHOOSE x \in actions : TRUE
         IN  action_size(a) + actions_size(actions \ {a})

\* the sets of at most k actions of ground with at most MaxLits literals
RECURSIVE ActionLists(_, _)
ActionLists(ground, k) ==
    IF k = 0 THEN {{}}
    ELSE LET smaller == ActionLists(ground, k - 1)
         IN  smaller \cup
                {q[1] \cup {q[2]} :
                    q \in {r \in smaller \X ground :
                            /\ r[2] \notin r[1]
                            /\ actions_size(r[1]) + action_size(r[2])
                                    <= MaxLits}}

\* the problems a graph is built for
Problems ==
    {[state_map |-> q[1], actions_list |-> q[2]] :
        q \in UNION {{<<sm, al>> :
                        al \in ActionLists(GroundActions(sm), MaxActs)} :
                    sm \in SUBSET Symbols}}

\* ------------------------------------------------------------------ mutex
\* the key of a node of either class
node_key(n) == IF "action" \in DOMAIN n THEN a_key(n) ELSE s_key(n)

\* mutexify without line 197: only node1 records the exclusion
mutexify_oneway(node1, node2, nodeset) ==
    {IF node_key(n) = node_key(node1)
        THEN [n EXCEPT !.mutex = @ \cup {node_key(node2)}]
        ELSE n : n \in nodeset}

\* mutexify: each of the two sibling nodes of nodeset joins the other's mutex set
mutexify(node1, node2, nodeset) ==
    {IF node_key(n) = node_key(node1)
        THEN [n EXCEPT !.mutex = @ \cup {node_key(node2)}]
        ELSE IF node_key(n) = node_key(node2)
            THEN [n EXCEPT !.mutex = @ \cup {node_key(node1)}]
            ELSE n : n \in nodeset}

\* the pairs (nodelist[i], nodelist[j]), i < j, of `nodelist = list(nodeset)`
RECURSIVE list_pairs(_)
list_pairs(nodeset) ==
    IF nodeset = {} THEN {}
    ELSE LET n1 == CHOOSE n \in nodeset : TRUE
         IN  {<<n1, n2>> : n2 \in nodeset \ {n1}}
                \cup list_pairs(nodeset \ {n1})

\* mutexify applied to every pair of `marked`
RECURSIVE mutexify_pairs(_, _)
mutexify_pairs(marked, nodeset) ==
    IF marked = {} THEN nodeset
    ELSE LET p == CHOOSE q \in marked : TRUE
         IN  mutexify_pairs(marked \ {p}, mutexify(p[1], p[2], nodeset))

\* serialize_actions without the test of self.serial
serialize_actions_noflag(node_a1, node_a2, is_serial) ==
    IF node_a1.is_persistent \/ node_a2.is_persistent THEN FALSE
    ELSE TRUE

\* serialize_actions without the test of is_persistent
serialize_actions_nopersist(node_a1, node_a2, is_serial) ==
    IF ~is_serial THEN FALSE
    ELSE TRUE

\* PlanningGraph.serialize_actions
serialize_actions(node_a1, node_a2, is_serial) ==
    IF ~is_serial THEN FALSE
    ELSE IF node_a1.is_persistent \/ node_a2.is_persistent THEN FALSE
    ELSE TRUE

\* inconsistent_effects_mutex without its second loop
inconsistent_effects_oneway(node_a1, node_a2) ==
    \E a1_effect_add \in node_a1.action.effect_add :
        a1_effect_add \in node_a2.action.effect_rem

\* PlanningGraph.inconsistent_effects_mutex
inconsistent_effects_mutex(node_a1, node_a2) ==
    \/ \E a1_effect_add \in node_a1.action.effect_add :
            a1_effect_add \in node_a2.action.effect_rem
    \/ \E a1_effect_rem \in node_a1.action.effect_rem :
            a1_effect_rem \in node_a2.action.effect_add

\* interference_mutex without its last two loops: the effects of node_a1
\* against the preconditions of node_a2 only
interference_oneway(node_a1, node_a2) ==
    \/ \E a1_effect_add \in node_a1.action.effect_add :
            a1_effect_add \in node_a2.action.precond_neg
    \/ \E a1_effect_rem \in node_a1.action.effect_rem :
            a1_effect_rem \in node_a2.action.precond_pos

\* PlanningGraph.interference_mutex
interference_mutex(node_a1, node_a2) ==
    \/ \E a1_effect_add \in node_a1.action.effect_add :
            a1_effect_add \in node_a2.action.precond_neg
    \/ \E a1_effect_rem \in node_a1.action.effect_rem :
            a1_effect_rem \in node_a2.action.precond_pos
    \/ \E a1_precond_pos \in node_a1.action.precond_pos :
            a1_precond_pos \in node_a2.action.effect_rem
    \/ \E a1_precond_neg \in node_a1.action.precond_neg :
            a1_precond_neg \in node_a2.action.effect_add

\* PlanningGraph.competing_needs_mutex: the parents are the literal nodes
\* add_action_level stored in the action nodes
competing_needs_mutex(node_a1, node_a2) ==
    \E a1_parent_s \in node_a1.parents :
        \E a2_parent_s \in node_a2.parents :
            is_mutex(a2_parent_s, s_key(a1_parent_s))

\* PlanningGraph.update_a_mutex
update_a_mutex(nodeset, is_serial) ==
    mutexify_pairs(
        {p \in list_pairs(nodeset) :
            \/ serialize_actions(p[1], p[2], is_serial)
            \/ inconsistent_effects_mutex(p[1], p[2])
            \/ interference_mutex(p[1], p[2])
            \/ competing_needs_mutex(p[1], p[2])},
        nodeset)

\* negation_mutex with == in place of != at line 676
negation_mutex_eq(node_s1, node_s2) ==
    node_s1.symbol = node_s2.symbol /\ s_eq(node_s1, node_s2)

\* PlanningGraph.negation_mutex
negation_mutex(node_s1, node_s2) ==
    node_s1.symbol = node_s2.symbol /\ ~s_eq(node_s1, node_s2)

\* the node of a level that a key refers to
node_of(key, nodeset) == CHOOSE n \in nodeset : node_key(n) = key

\* PlanningGraph.inconsistent_support_mutex; a_level is the action level
\* the parents of the two literal nodes belong to
inconsistent_support_mutex(node_s1, node_s2, a_level) ==
    LET mutex_parents ==
            {pr \in node_s1.parents \X node_s2.parents :
                is_mutex(node_of(pr[1], a_level), pr[2])}
        both_children(parent) ==
            /\ s_key(node_s1) \in node_of(parent, a_level).children
            /\ s_key(node_s2) \in node_of(parent, a_level).children
    IN  IF \E pr \in mutex_parents :
                both_children(pr[1]) \/ both_children(pr[2])
        THEN FALSE
        ELSE mutex_parents # {}

\* PlanningGraph.update_s_mutex; a_level is the action level before nodeset
update_s_mutex(nodeset, a_level) ==
    mutexify_pairs(
        {p \in list_pairs(nodeset) :
            \/ negation_mutex(p[1], p[2])
            \/ inconsistent_support_mutex(p[1], p[2], a_level)},
        nodeset)

\* ----------------------------------------------------------------- levels
\* add_action_level, lines 346-371: the precondition literals of an action
\* as the new literal nodes the loop collects
parent_s_nodes(action) ==
    {PgNode_s(precond_pos, TRUE) : precond_pos \in action.precond_pos}
        \cup {PgNode_s(precond_neg, FALSE) :
                precond_neg \in action.precond_neg}

\* add_action without the loop over precond_neg
add_action_posonly(action, previous_s) ==
    \A precond_pos \in action.precond_pos :
        s_in(PgNode_s(precond_pos, TRUE), previous_s)

\* add_action_level, lines 345-372: the flag add_action after both loops
add_action(action, previous_s) ==
    /\ \A precond_pos \in action.precond_pos :
            s_in(PgNode_s(precond_pos, TRUE), previous_s)
    /\ \A precond_neg \in action.precond_neg :
            s_in(PgNode_s(precond_neg, FALSE), previous_s)

\* add_action_level: the action level built from literal level previous_s
add_action_level(actions, previous_s) ==
    {[PgNode_a(action) EXCEPT !.parents = parent_s_nodes(action)] :
        action \in {a \in actions : add_action(a, previous_s)}}

\* add_action_level, lines 376-378: the literal level with the new action
\* nodes linked as children
link_children(previous_s, a_level) ==
    {[s_node EXCEPT !.children =
            @ \cup {a_key(a_node) :
                        a_node \in {x \in a_level : s_in(s_node, x.parents)}}] :
        s_node \in previous_s}

\* the literals the action nodes of a level produce
produced(a_level) == UNION {a_node.effnodes : a_node \in a_level}

\* the keys of the action nodes of a level that produce a literal
producers(lit, a_level) ==
    {a_key(a_node) : a_node \in {x \in a_level : lit \in x.effnodes}}

\* no cycle in relation R over nodes
RECURSIVE acyclic(_, _)
acyclic(nodes, R) ==
    \/ nodes = {}
    \/ LET heads == {n \in nodes : ~\E m \in nodes : <<m, n>> \in R}
       IN  heads # {} /\ acyclic(nodes \ heads, R)

\* the functions that map each literal of lits to one of its producers
RECURSIVE producer_choices(_, _)
producer_choices(lits, a_level) ==
    IF lits = {} THEN {<<>>}
    ELSE LET lit == CHOOSE l \in lits : TRUE
         IN  {(lit :> k) @@ f :
                k \in producers(lit, a_level),
                f \in producer_choices(lits \ {lit}, a_level)}

\* `for pre_a_node in self.a_levels[level-1]` iterates a Python set in an
\* arbitrary order. An order matters only through the producer of each
\* literal it meets first: the functions literal -> first producer that
\* some iteration order of a_level realises (first[lit] comes before every
\* other producer of lit, and these constraints have no cycle)
iteration_firsts(a_level) ==
    {first \in producer_choices(produced(a_level), a_level) :
        acyclic({a_key(a_node) : a_node \in a_level},
                UNION {{<<first[lit], other>> :
                            other \in producers(lit, a_level) \ {first[lit]}} :
                        lit \in DOMAIN first})}

\* add_literal_level: the literal level. set.add keeps the node already in
\* the set, so the node of a literal is the effnode of its first producer,
\* whose parents hold that producer alone
add_literal_level(a_level, first) ==
    {[PgNode_s(lit.symbol, lit.is_pos) EXCEPT !.parents = {first[lit]}] :
        lit \in produced(a_level)}

\* add_literal_level, line 444: every effnode becomes a child of its action
link_effects(a_level) ==
    {[pre_a_node EXCEPT !.children = @ \cup pre_a_node.effnodes] :
        pre_a_node \in a_level}

\* `is` in place of `==` at line 307: the two levels are distinct set
\* objects, never identical
set_eq_identity(s1, s2) == FALSE

\* a comparison of two literal levels that also compares the parents,
\* children and mutex sets of their nodes
set_eq_relations(s1, s2) == s1 = s2

\* `==` of two Python sets of literal nodes
set_eq(s1, s2) ==
    /\ Cardinality(s1) = Cardinality(s2)
    /\ \A n \in s1 : s_in(n, s2)

\* -------------------------------------------------------------- heuristic
\* level_cost counting the levels from 1
RECURSIVE level_cost_from1(_, _, _)
level_cost_from1(goal_fluent, levels, i) ==
    IF i > Len(levels) THEN 0
    ELSE IF s_in(goal_fluent, levels[i]) THEN i
    ELSE level_cost_from1(goal_fluent, levels, i + 1)

\* h_levelsum, lines 735-741: the index added for one goal, scanning the
\* levels from position i (level index i - 1); nothing is added when the
\* loop ends without a break
RECURSIVE level_cost(_, _, _)
level_cost(goal_fluent, levels, i) ==
    IF i > Len(levels) THEN 0
    ELSE IF s_in(goal_fluent, levels[i]) THEN i - 1
    ELSE level_cost(goal_fluent, levels, i + 1)

\* PlanningGraph.h_levelsum
RECURSIVE h_levelsum(_, _)
h_levelsum(goals, levels) ==
    IF goals = {} THEN 0
    ELSE LET goal_fluent == CHOOSE g \in goals : TRUE
         IN  level_cost(goal_fluent, levels, 1)
                + h_levelsum(goals \ {goal_fluent}, levels)

\* PlanningGraph.__init__, line 221: the domain actions and the no-ops
all_actions ==
    problem.actions_list \cup noop_actions(problem.state_map)

\* PlanningGraph.__init__ up to the call of create_graph
Init ==
    /\ problem \in Problems
    /\ \E state \in [problem.state_map -> {"T", "F"}] :
            fs = decode_state(state, problem.state_map)
    /\ serial \in BOOLEAN
    /\ s_levels = <<>>
    /\ a_levels = <<>>
    /\ goal_states = {}
    /\ level = 0
    /\ pc = "init"
    /\ ret = [op |-> "none", raised |-> FALSE, val |-> 0]


\* the guard with `and` in place of `or` and one test inverted
already_created_typo(s_lv, a_lv) == Len(s_lv) # 0 /\ Len(a_lv) = 0

\* create_graph, lines 272-274: the guard against a second build
already_created(s_lv, a_lv) == Len(s_lv) # 0 \/ Len(a_lv) # 0
CreateGraph ==
    /\ pc \in {"init", "built"}
    /\ IF already_created(s_levels, a_levels)
       THEN /\ ret' = [op |-> "create_graph", raised |-> TRUE, val |-> 0]
            /\ UNCHANGED <<s_levels, a_levels, level, pc>>
       ELSE /\ s_levels' = Append(s_levels,
                    {PgNode_s(literal, TRUE) : literal \in fs.pos}
                        \cup {PgNode_s(literal, FALSE) : literal \in fs.neg})
            /\ level' = 0
            /\ pc' = "building"
            /\ ret' = [op |-> "create_graph", raised |-> FALSE, val |-> 0]
            /\ UNCHANGED a_levels
    /\ UNCHANGED <<problem, fs, serial, goal_states>>

\* create_graph, lines 295-309: one pass of the while loop; when the graph
\* has leveled, __init__ lines 226-227 set goal_states from problem.goal,
\* an input nothing reads before
LevelStep ==
    /\ pc = "building"
    /\ LET previous_s == s_levels[level + 1]
           a_new == add_action_level(all_actions, previous_s)
           a_mutexed == update_a_mutex(a_new, serial)
           a_linked == link_effects(a_mutexed)
       IN  \E first \in iteration_firsts(a_mutexed) :
            LET s_new == update_s_mutex(add_literal_level(a_mutexed, first),
                                        a_linked)
                leveled == set_eq(s_new, previous_s)
            IN  /\ s_levels' =
                        Append([s_levels EXCEPT ![level + 1] =
                                    link_children(previous_s, a_new)], s_new)
                /\ a_levels' = Append(a_levels, a_linked)
                /\ level' = level + 1
                /\ pc' = IF leveled THEN "built" ELSE "building"
                /\ goal_states' \in
                        IF leveled
                        THEN {{PgNode_s(s, TRUE) : s \in goal} :
                                goal \in SUBSET problem.state_map}
                        ELSE {goal_states}
    /\ UNCHANGED <<problem, fs, serial, ret>>

\* a call of h_levelsum on the built graph
HLevelSum ==
    /\ pc = "built"
    /\ ret' = [op |-> "h_levelsum", raised |-> FALSE,
               val |-> h_levelsum(goal_states, s_levels)]
    /\ UNCHANGED <<problem, fs, serial, s_levels, a_levels, goal_states,
                   level, pc>>

Next == CreateGraph \/ LevelStep \/ HLevelSum

Spec == Init /\ [][Next]_vars
\* ------------------------------------------------------------ properties
\* literal level i and action level i of the source are s_levels[i + 1] and
\* a_levels[i + 1]
LevelIndices == 0 .. (Len(s_levels) - 1)

ActionLevelIndices == 0 .. (Len(a_levels) - 1)

Appears(g, i) == s_in(g, s_levels[i + 1])

Reachable(g) == \E i \in LevelIndices : Appears(g, i)

FirstLevel(g) ==
    CHOOSE i \in LevelIndices :
        Appears(g, i) /\ \A j \in LevelIndices : Appears(g, j) => i <= j

RECURSIVE SumFirstLevels(_)
SumFirstLevels(goals) ==
    IF goals = {} THEN 0
    ELSE LET g == CHOOSE x \in goals : TRUE
         IN  FirstLevel(g) + SumFirstLevels(goals \ {g})

\* the Move scenario: A stands for At(A), B for At(B)
MoveScenario ==
    /\ problem.state_map = {"A", "B"}
    /\ problem.actions_list =
            {Action("Act", <<{"A"}, {}, {"B"}, {"A"}>>,
                    {"A"}, {}, {"B"}, {"A"})}
    /\ fs = [pos |-> {"A"}, neg |-> {"B"}]
    /\ goal_states = {PgNode_s("B", TRUE)}

\* C1: when every goal literal appears in some literal level, h_levelsum
\* returns the sum over the goal literals of the first level index at which
\* the literal is present; in the Move scenario it returns 1
C1_LevelSumIsSumOfFirstLevels ==
    ret.op = "h_levelsum" =>
        /\ (\A g \in goal_states : Reachable(g)) =>
                ret.val = SumFirstLevels(goal_states)
        /\ MoveScenario => ret.val = 1

C1_Witness == ret.op = "h_levelsum" /\ MoveScenario /\ ret.val = 1

\* C2: h_levelsum returns 0 if and only if every goal literal is present in
\* literal level 0
C2_ZeroIffGoalsAtLevel0 ==
    ret.op = "h_levelsum" =>
        (ret.val = 0 <=> \A g \in goal_states : Appears(g, 0))

\* C3: when some goal literal appears in no literal level, h_levelsum
\* reports an outcome that is no valid numeric estimate (an error or a
\* sentinel outside the naturals)
C3_UnreachableGoalReported ==
    (ret.op = "h_levelsum" /\ \E g \in goal_states : ~Reachable(g)) =>
        (ret.raised \/ ret.val \notin Nat)

VocabularySize == Cardinality(problem.state_map)

\* C4 as claimed: at most 2 * (vocabulary size) + 1 literal levels
C4_AtMostTwiceVocabularyPlusOne == Len(s_levels) <= 2 * VocabularySize + 1

\* C4 as amended: at every point of the construction the number of literal
\* levels is at most 2 * (vocabulary size) + 1 for a non-empty vocabulary
\* and at most 2 for an empty one, so the loop, which adds one literal
\* level per pass, ends
C4_LevelsBounded ==
    Len(s_levels) <= IF VocabularySize = 0 THEN 2 ELSE 2 * VocabularySize + 1

C4_Witness ==
    /\ pc = "built"
    /\ VocabularySize = 2
    /\ Len(s_levels) = 2 * VocabularySize

\* C5: at every level the mutex relation is symmetric
SymmetricMutex(nodeset) ==
    \A a \in nodeset : \A b \in nodeset :
        node_key(b) \in a.mutex <=> node_key(a) \in b.mutex

C5_MutexSymmetric ==
    /\ \A i \in LevelIndices : SymmetricMutex(s_levels[i + 1])
    /\ \A i \in ActionLevelIndices : SymmetricMutex(a_levels[i + 1])

C5_Witness ==
    /\ pc = "built"
    /\ \E i \in LevelIndices : \E a \in s_levels[i + 1] : a.mutex # {}
    /\ \E i \in ActionLevelIndices : \E a \in a_levels[i + 1] : a.mutex # {}

\* C6: two literal nodes of one level with the same symbol and opposite
\* polarity are marked mutex with each other
C6_NegationsMutex ==
    \A i \in LevelIndices :
        \A n \in s_levels[i + 1] : \A m \in s_levels[i + 1] :
            (n.symbol = m.symbol /\ n.is_pos # m.is_pos) =>
                (s_key(m) \in n.mutex /\ s_key(n) \in m.mutex)

C6_Witness ==
    /\ pc = "built"
    /\ \E i \in LevelIndices :
        \E n \in s_levels[i + 1] : \E m \in s_levels[i + 1] :
            /\ n.symbol = m.symbol /\ n.is_pos # m.is_pos
            /\ s_key(m) \in n.mutex

\* the action mutex rules as the specification states them
InconsistentEffects(n1, n2) ==
    \/ n1.action.effect_add \cap n2.action.effect_rem # {}
    \/ n2.action.effect_add \cap n1.action.effect_rem # {}

Interference(n1, n2) ==
    \/ n1.action.effect_add \cap n2.action.precond_neg # {}
    \/ n1.action.effect_rem \cap n2.action.precond_pos # {}
    \/ n2.action.effect_add \cap n1.action.precond_neg # {}
    \/ n2.action.effect_rem \cap n1.action.precond_pos # {}

\* some precondition literal of n1 and some precondition literal of n2
\* are marked mutex in literal level i
CompetingNeeds(n1, n2, i) ==
    \E m1 \in s_levels[i + 1] : \E m2 \in s_levels[i + 1] :
        /\ s_key(m1) \in n1.prenodes
        /\ s_key(m2) \in n2.prenodes
        /\ s_key(m2) \in m1.mutex

MarkedMutex(n1, n2) == node_key(n2) \in n1.mutex /\ node_key(n1) \in n2.mutex

NotMarkedMutex(n1, n2) ==
    node_key(n2) \notin n1.mutex /\ node_key(n1) \notin n2.mutex

SymbolsOf(n) ==
    n.action.precond_pos \cup n.action.precond_neg
        \cup n.action.effect_add \cup n.action.effect_rem

\* C7: with the serial flag, two distinct non-persistent action nodes of a
\* level are marked mutex; without it, two such nodes with no inconsistent
\* effects, no interference and no competing needs are not marked mutex
C7_SerialExclusion ==
    \A i \in ActionLevelIndices :
        \A n1 \in a_levels[i + 1] : \A n2 \in a_levels[i + 1] :
            (n1 # n2 /\ ~n1.is_persistent /\ ~n2.is_persistent) =>
                /\ serial => MarkedMutex(n1, n2)
                /\ (/\ ~serial
                    /\ ~InconsistentEffects(n1, n2)
                    /\ ~Interference(n1, n2)
                    /\ ~CompetingNeeds(n1, n2, i)) => NotMarkedMutex(n1, n2)

C7_Witness ==
    /\ serial
    /\ \E i \in ActionLevelIndices :
        \E n1 \in a_levels[i + 1] : \E n2 \in a_levels[i + 1] :
            /\ n1 # n2 /\ ~n1.is_persistent /\ ~n2.is_persistent
            /\ SymbolsOf(n1) \cap SymbolsOf(n2) = {}
            /\ SymbolsOf(n1) # {} /\ SymbolsOf(n2) # {}
            /\ MarkedMutex(n1, n2)

\* C8: two distinct action nodes of a level of which one adds what the
\* other removes are marked mutex, whatever the serial flag and whether or
\* not either is persistent
C8_InconsistentEffectsMutex ==
    \A i \in ActionLevelIndices :
        \A n1 \in a_levels[i + 1] : \A n2 \in a_levels[i + 1] :
            (n1 # n2 /\ n1.action.effect_add \cap n2.action.effect_rem # {})
                => MarkedMutex(n1, n2)

C8_Witness ==
    /\ ~serial
    /\ \E i \in ActionLevelIndices :
        \E n1 \in a_levels[i + 1] : \E n2 \in a_levels[i + 1] :
            /\ n1 # n2
            /\ n1.action.effect_add \cap n2.action.effect_rem # {}
            /\ ~Interference(n1, n2)
            /\ MarkedMutex(n1, n2)

IsNoop(n) == n.action.name \in {"Noop_pos", "Noop_neg"}

C10_RebuildFails ==
    [][(pc = "built" /\ ret'.op = "create_graph") =>
            /\ ret'.raised
            /\ s_levels' = s_levels
            /\ a_levels' = a_levels
            /\ pc' = "built"]_vars

C10_Witness == pc = "built" /\ ret.op = "create_graph" /\ ret.raised

\* the literals a literal level holds
Literals(i) == {s_key(n) : n \in s_levels[i + 1]}

PosLit(symbol) == [symbol |-> symbol, is_pos |-> TRUE]

NegLit(symbol) == [symbol |-> symbol, is_pos |-> FALSE]

\* action level i holds a node for the action
HasNode(action, i) == \E n \in a_levels[i + 1] : n.action = action

\* the action is enabled at literal level i
Enabled(action, i) ==
    /\ \A p \in action.precond_pos : PosLit(p) \in Literals(i)
    /\ \A p \in action.precond_neg : NegLit(p) \in Literals(i)

\* C11: for every action level k and every candidate ground action (domain
\* actions and no-ops), action level k holds a node for the action if and
\* only if each positive precondition is a positive literal of literal level
\* k and each negative precondition is a negative literal of literal level k
C11_NodeIffEnabled ==
    \A i \in ActionLevelIndices :
        \A action \in all_actions : HasNode(action, i) <=> Enabled(action, i)

C11_Witness ==
    /\ pc = "built"
    /\ \E action \in problem.actions_list :
        /\ action.precond_neg # {}
        /\ ~Enabled(action, 0) /\ ~HasNode(action, 0)
        /\ Enabled(action, 1) /\ HasNode(action, 1)

\* C12: two distinct action nodes of action level k are marked mutex
\* whenever some precondition literal of the first and some precondition
\* literal of the second are marked mutex with each other in literal level
\* k (competing needs), also when no other action mutex rule applies
C12_CompetingNeedsMutex ==
    \A i \in ActionLevelIndices :
        \A n1 \in a_levels[i + 1] : \A n2 \in a_levels[i + 1] :
            (n1 # n2 /\ CompetingNeeds(n1, n2, i)) => MarkedMutex(n1, n2)

\* the action nodes of action level i whose effect literals include lit
Producers(lit, i) == {n \in a_levels[i + 1] : lit \in effect_s_nodes(n.action)}

\* C13: for k >= 1 the parent set of every literal node of literal level k
\* is the set of all action nodes of action level k-1 whose effect literals
\* include the literal
C13_ParentsAreAllProducers ==
    \A k \in LevelIndices \ {0} :
        \A n \in s_levels[k + 1] :
            n.parents = {a_key(p) : p \in Producers(s_key(n), k - 1)}

\* C14: for k >= 1, two literal nodes of literal level k that are not
\* negations of each other and that some single action node of action level
\* k-1 produces together are not marked mutex
C14_JointProducerOverrides ==
    \A k \in LevelIndices \ {0} :
        \A n \in s_levels[k + 1] : \A m \in s_levels[k + 1] :
            (/\ n.symbol # m.symbol
             /\ Producers(s_key(n), k - 1) \cap Producers(s_key(m), k - 1)
                    # {})
                => NotMarkedMutex(n, m)

\* C15: for k >= 1, when two literal nodes of literal level k that are not
\* negations of each other are marked mutex, every action node of action
\* level k-1 that produces the first is marked mutex with every action node
\* of action level k-1 that produces the second
C15_MutexOnlyIfAllProducersMutex ==
    \A k \in LevelIndices \ {0} :
        \A n \in s_levels[k + 1] : \A m \in s_levels[k + 1] :
            (n.symbol # m.symbol /\ s_key(m) \in n.mutex) =>
                \A p \in Producers(s_key(n), k - 1) :
                    \A q \in Producers(s_key(m), k - 1) : MarkedMutex(p, q)

\* C16: two distinct action nodes of a level are marked mutex whenever, in
\* either direction, an add effect of one is a negative precondition of the
\* other or a remove effect of one is a positive precondition of the other,
\* whatever the serial flag
C16_InterferenceMutex ==
    \A i \in ActionLevelIndices :
        \A n1 \in a_levels[i + 1] : \A n2 \in a_levels[i + 1] :
            (/\ n1 # n2
             /\ \/ n1.action.effect_add \cap n2.action.precond_neg # {}
                \/ n1.action.effect_rem \cap n2.action.precond_pos # {})
                => MarkedMutex(n1, n2)

C16_Witness ==
    /\ ~serial
    /\ \E i \in ActionLevelIndices :
        \E n1 \in a_levels[i + 1] : \E n2 \in a_levels[i + 1] :
            /\ n1 # n2
            /\ n1.action.effect_rem \cap n2.action.precond_pos # {}
            /\ ~InconsistentEffects(n1, n2)
            /\ \E n3 \in a_levels[i + 1] : \E n4 \in a_levels[i + 1] :
                /\ n3 # n4
                /\ n3.action.effect_add \cap n4.action.precond_neg # {}
                /\ ~InconsistentEffects(n3, n4)
                /\ MarkedMutex(n3, n4)
            /\ MarkedMutex(n1, n2)

\* literal levels i and i + 1 hold the same literals
SameLiterals(i) == Literals(i) = Literals(i + 1)

\* the mutex marks of a literal level, each as a pair of literals
MutexPairs(i) ==
    UNION {{<<s_key(n), other>> : other \in n.mutex} : n \in s_levels[i + 1]}

\* C17: construction stops at the first level index k >= 1 whose literal
\* level holds the same literals (symbol and polarity) as literal level
\* k-1, whatever the mutex sets: while the graph is being built no two
\* consecutive literal levels hold the same literals and there are as many
\* action levels as literal levels less one; in a built graph the last two
\* literal levels hold the same literals, no earlier consecutive pair does,
\* and there is exactly one more literal level than action levels
C17_StopsAtFirstRepeatedLevel ==
    /\ pc = "building" =>
        /\ Len(s_levels) = Len(a_levels) + 1
        /\ \A i \in 0 .. (Len(s_levels) - 2) : ~SameLiterals(i)
    /\ pc = "built" =>
        /\ Len(s_levels) = Len(a_levels) + 1
        /\ Len(s_levels) >= 2
        /\ SameLiterals(Len(s_levels) - 2)
        /\ \A i \in 0 .. (Len(s_levels) - 3) : ~SameLiterals(i)

C17_Witness ==
    /\ pc = "built"
    /\ Len(s_levels) >= 3
    /\ SameLiterals(Len(s_levels) - 2)
    /\ MutexPairs(Len(s_levels) - 2) # MutexPairs(Len(s_levels) - 1)

\* C18: literal levels never shrink: every literal (symbol and polarity) of
\* literal level k is a literal of literal level k+1
C18_LevelsNeverShrink ==
    \A i \in 0 .. (Len(s_levels) - 2) : Literals(i) \subseteq Literals(i + 1)

C18_Witness ==
    /\ pc = "built"
    /\ \E i \in 0 .. (Len(s_levels) - 2) :
        /\ \E lit \in Literals(i) : ~lit.is_pos
        /\ \E lit \in Literals(i) : lit.is_pos
        /\ Literals(i) # Literals(i + 1)
        /\ Literals(i) \subseteq Literals(i + 1)
====
